---------------------------- MODULE Spec2Model ----------------------------
(***************************************************************************)
(* Model of the daily-record engine of the habit tracker (App component,   *)
(* src/unnamed/part_000, with the types and constants of src/types.ts).    *)
(*                                                                         *)
(* JavaScript objects that the code mutates in place (task instances and   *)
(* the prayers object) are modelled as cells of a heap, so that a record   *)
(* copied with the spread operator shares them with its original, exactly  *)
(* as in the code.  Records and task arrays are never mutated after they   *)
(* are shared (updateRecord writes to a fresh shallow copy; map, filter    *)
(* and spread build new arrays), so they are plain values holding heap     *)
(* references.                                                             *)
(*                                                                         *)
(* One action is one event handler together with the re-render and the     *)
(* effects that React runs after it.                                       *)
(***************************************************************************)
EXTENDS Integers, Sequences, FiniteSets, TLC

VARIABLES
    profile,        \* state.profile
    records,        \* state.records: date key -> DailyRecord
    darkMode,       \* state.darkMode
    selectedDate,   \* the selectedDate hook
    currentRecord,  \* value of the currentRecord memo of the last render
    pending,        \* inspiration requests in flight (closures of fetchQuote)
    heap,           \* task-instance objects, by reference
    pheap,          \* prayers objects, by reference
    saved,          \* localStorage item 'zenith_app_state'
    lastOp,         \* history: the last handler that ran, with its pre-state
    prevOp,         \* history: the handler before that (without the mapping)
    seen,           \* history: dates a user mutation was applied to, dates
                    \* an inspiration response landed on, and whether a
                    \* confirmed reset happened ("never"), happened with no
                    \* user mutation since ("clean") or with one ("dirty")
    steps           \* number of handlers run so far

vars == <<profile, records, darkMode, selectedDate, currentRecord, pending,
          heap, pheap, saved, lastOp, prevOp, seen, steps>>

---------------------------------------------------------------------------
(* Bounds of the model *)

MaxSteps == 3

NumDates == 2

NumTemplates == 3

MaxInflight == 2

MaxTasks == 5

MaxHistory == 15

(* Inputs *)

Dates == 1..NumDates

Today == 1

RandomIds == {"r1", "r2"}

AbsentId == "zz"

EditPoints == {15}

EditNames == {"Renamed"}

UserQuotes == {"", "my quote"}

ProviderQuotes == {"provider quote"}

ProfileNames == {"Alex Rivera", "Sam"}

Avatars == {"picsum", "data:image"}

PrayerInputs == {"fajr", "isha"}

---------------------------------------------------------------------------
(* Constants of the program *)

Undefined == "<undefined>"

Prayers == {"fajr", "dhuhr", "asr", "maghrib", "isha"}

AllTemplates ==
    << [id |-> "1", name |-> "Morning Meditation", points |-> 10],
       [id |-> "2", name |-> "Deep Work (2 Hours)", points |-> 20],
       [id |-> "3", name |-> "Physical Exercise", points |-> 15],
       [id |-> "4", name |-> "Read 10 Pages", points |-> 10],
       [id |-> "5", name |-> "Healthy Meal Prep", points |-> 15],
       [id |-> "6", name |-> "Evening Review", points |-> 5] >>

Min(a, b) == IF a < b THEN a ELSE b

DEFAULT_TEMPLATES == SubSeq(AllTemplates, 1, Min(NumTemplates, Len(AllTemplates)))

INITIAL_PROFILE ==
    [name |-> "Alex Rivera", avatar |-> "picsum", totalPoints |-> 0, streak |-> 5]

NewTaskName == "New Objective"

NewTaskPoints == 10

ChartWindow == 14

templates == DEFAULT_TEMPLATES

---------------------------------------------------------------------------
(* Heap helpers *)

NextFree(used) ==
    CHOOSE k \in 1..(Cardinality(used) + 1) :
        k \notin used /\ \A j \in 1..(k - 1) : j \in used

RECURSIVE FreshRefs(_, _)
FreshRefs(used, n) ==
    IF n = 0 THEN << >>
    ELSE LET k == NextFree(used) IN << k >> \o FreshRefs(used \cup {k}, n - 1)

Extend(h, new) ==
    [k \in DOMAIN h \cup DOMAIN new |-> IF k \in DOMAIN new THEN new[k] ELSE h[k]]

Restrict(h, live) == [k \in DOMAIN h \cap live |-> h[k]]

Put(recs, d, r) == [k \in DOMAIN recs \cup {d} |-> IF k = d THEN r ELSE recs[k]]

EmptyMap == [k \in {} |-> 0]

Range(s) == {s[i] : i \in DOMAIN s}

RECURSIVE SumSeq(_)
SumSeq(s) == IF s = << >> THEN 0 ELSE Head(s) + SumSeq(Tail(s))

RECURSIVE FilterIdx(_, _, _)
FilterIdx(s, keep, i) ==
    IF i > Len(s) THEN << >>
    ELSE (IF i \in keep THEN << s[i] >> ELSE << >>) \o FilterIdx(s, keep, i + 1)

---------------------------------------------------------------------------
(* Pure functions of the code *)

\* x || 1
OrOne(x) == IF x = 0 THEN 1 ELSE x

\* !customQuote: undefined and the empty string are falsy
Falsy(q) == q = Undefined \/ q = ""

\* (earned / (max || 1)) * 100, kept as the exact fraction n/d.  The code
\* computes it in double precision; for the integer point totals of the
\* model the comparisons below give the same result as the doubles.
Progress(earned, max) == [n |-> 100 * earned, d |-> OrOne(max)]

getReportCommentLe(progress) ==
    IF progress.n = 0 THEN "empty canvas"
    ELSE IF progress.n <= 30 * progress.d THEN "seed sower"
    ELSE IF progress.n < 60 * progress.d THEN "momentum builder"
    ELSE IF progress.n < 100 * progress.d THEN "peak performer"
    ELSE "zenith master"

getReportComment(progress) ==
    IF progress.n = 0 THEN "empty canvas"
    ELSE IF progress.n < 30 * progress.d THEN "seed sower"
    ELSE IF progress.n < 60 * progress.d THEN "momentum builder"
    ELSE IF progress.n < 100 * progress.d THEN "peak performer"
    ELSE "zenith master"

\* record.tasks.reduce((acc, t) => acc + (t.completed ? t.points : 0), 0)
Earned(tasks, h) ==
    SumSeq([i \in 1..Len(tasks) |->
               IF h[tasks[i]].completed THEN h[tasks[i]].points ELSE 0])

\* record.tasks.reduce((acc, t) => acc + t.points, 0)
MaxPoints(tasks, h) == SumSeq([i \in 1..Len(tasks) |-> h[tasks[i]].points])

\* tasks.findIndex(t => t.id === taskId); 0 stands for -1
FindIndex(tasks, h, taskId) ==
    LET hits == {i \in DOMAIN tasks : h[tasks[i]].id = taskId}
    IN IF hits = {} THEN 0 ELSE CHOOSE i \in hits : \A j \in hits : i <= j

---------------------------------------------------------------------------
(* Records *)

\* the object literal of the currentRecord memo, with fresh task objects
\* ({ ...t, completed: false }) and a fresh prayers object
Synthesize(date, h, ph) ==
    LET refs == FreshRefs(DOMAIN h, Len(templates))
        pref == NextFree(DOMAIN ph)
        obj(i) == [id |-> templates[i].id, name |-> templates[i].name,
                   points |-> templates[i].points, completed |-> FALSE]
    IN [rec |-> [date |-> date,
                 tasks |-> refs,
                 totalPointsEarned |-> 0,
                 maxPointsPossible |->
                     SumSeq([i \in 1..Len(templates) |-> templates[i].points]),
                 customQuote |-> Undefined,
                 reportComment |-> Undefined,
                 prayers |-> pref],
        h |-> Extend(h, [r \in Range(refs) |->
                           obj(CHOOSE i \in DOMAIN refs : refs[i] = r)]),
        ph |-> Extend(ph, [r \in {pref} |-> {}])]

MaterializeNoMax(date, recs, h, ph) ==
    IF date \in DOMAIN recs
    THEN [rec |-> recs[date], h |-> h, ph |-> ph]
    ELSE LET s == Synthesize(date, h, ph)
         IN [s EXCEPT !.rec.maxPointsPossible = 0]

\* body of the currentRecord memo
Materialize(date, recs, h, ph) ==
    IF date \in DOMAIN recs
    THEN [rec |-> recs[date], h |-> h, ph |-> ph]
    ELSE Synthesize(date, h, ph)

updateRecordNoRecount(record, h) ==
    [record EXCEPT
       !.maxPointsPossible = MaxPoints(record.tasks, h),
       !.reportComment =
           getReportComment(Progress(record.totalPointsEarned,
                                     MaxPoints(record.tasks, h)))]

\* the three assignments of updateRecord; the result is what setState stores
updateRecord(record, h) ==
    [record EXCEPT
       !.totalPointsEarned = Earned(record.tasks, h),
       !.maxPointsPossible = MaxPoints(record.tasks, h),
       !.reportComment =
           getReportComment(Progress(Earned(record.tasks, h),
                                     MaxPoints(record.tasks, h)))]

\* { ...t, ...updates } for a Partial<TaskInstance> carrying name and/or points
Merge(t, updates) ==
    [t EXCEPT
       !.name = IF updates.name = Undefined THEN @ ELSE updates.name,
       !.points = IF updates.points < 0 THEN @ ELSE updates.points]

Updates == {[name |-> n, points |-> p] : n \in EditNames, p \in EditPoints}

---------------------------------------------------------------------------
(* Views: a record with its references followed, as the user sees it *)

ViewRec(r, h, ph) ==
    [date |-> r.date,
     tasks |-> [i \in 1..Len(r.tasks) |-> h[r.tasks[i]]],
     totalPointsEarned |-> r.totalPointsEarned,
     maxPointsPossible |-> r.maxPointsPossible,
     customQuote |-> r.customQuote,
     reportComment |-> r.reportComment,
     prayers |-> IF r.prayers = 0 THEN {Undefined} ELSE ph[r.prayers]]

View(r) == ViewRec(r, heap, pheap)

\* the records mapping, as the user sees it
RecordsView == [d \in DOMAIN records |-> View(records[d])]

\* the record a render would show for date d in the current state
MaterializeView(d) ==
    IF d = selectedDate THEN View(currentRecord)
    ELSE LET m == Materialize(d, records, heap, pheap)
         IN ViewRec(m.rec, m.h, m.ph)

---------------------------------------------------------------------------
(* Persistence *)

\* JSON.stringify of an object: a property whose value is undefined is left
\* out, and the objects reached through references are written by value
\* (of a DailyRecord only customQuote, reportComment and prayers can be so)
IsUndefined(o, k) ==
    \/ k \in {"customQuote", "reportComment"} /\ o[k] = Undefined
    \/ k = "prayers" /\ o[k] = {Undefined}

DropUndefined(o) == [k \in {x \in DOMAIN o : ~IsUndefined(o, x)} |-> o[k]]

StringifyDropsFalsy(prof, recs, h, ph, dark) ==
    [profile |-> prof,
     templates |-> templates,
     records |-> [d \in DOMAIN recs |->
                    LET v == ViewRec(recs[d], h, ph)
                    IN [k \in {x \in DOMAIN v :
                               /\ ~IsUndefined(v, x)
                               /\ x = "customQuote" => v[x] # ""} |-> v[k]]],
     darkMode |-> dark]

\* JSON.stringify(state)
Stringify(prof, recs, h, ph, dark) ==
    [profile |-> prof,
     templates |-> templates,
     records |-> [d \in DOMAIN recs |-> DropUndefined(ViewRec(recs[d], h, ph))],
     darkMode |-> dark]

\* o[k] for a parsed object: undefined when the property is missing
Get(o, k) == IF k \in DOMAIN o THEN o[k] ELSE Undefined

\* JSON.parse(saved): every task and every prayers object of the parsed
\* records is a new object.  The objects are numbered in the order of the
\* date keys: TaskBase is the number of task objects of the records before
\* date d, PrayersRef the number of the prayers object of the record of d.
TaskBase(json, d) ==
    Cardinality(UNION {{<<x, i>> : i \in DOMAIN json[x].tasks} :
                          x \in {y \in DOMAIN json : y < d}})

PrayersRef(json, d) ==
    IF "prayers" \notin DOMAIN json[d] THEN 0
    ELSE Cardinality({x \in DOMAIN json : x <= d /\ "prayers" \in DOMAIN json[x]})

Parse(json) ==
    LET rs == json.records
        owner(r) == CHOOSE d \in DOMAIN rs :
                        TaskBase(rs, d) < r /\ r <= TaskBase(rs, d) + Len(rs[d].tasks)
    IN [profile |-> json.profile,
        darkMode |-> json.darkMode,
        recs |-> [d \in DOMAIN rs |->
                    [date |-> rs[d].date,
                     tasks |-> [i \in 1..Len(rs[d].tasks) |-> TaskBase(rs, d) + i],
                     totalPointsEarned |-> rs[d].totalPointsEarned,
                     maxPointsPossible |-> rs[d].maxPointsPossible,
                     customQuote |-> Get(rs[d], "customQuote"),
                     reportComment |-> Get(rs[d], "reportComment"),
                     prayers |-> PrayersRef(rs, d)]],
        h |-> [r \in UNION {{TaskBase(rs, d) + i : i \in DOMAIN rs[d].tasks} :
                               d \in DOMAIN rs} |->
                  rs[owner(r)].tasks[r - TaskBase(rs, owner(r))]],
        ph |-> [r \in {PrayersRef(rs, d) : d \in DOMAIN rs} \ {0} |->
                  rs[CHOOSE d \in DOMAIN rs : PrayersRef(rs, d) = r].prayers]]

---------------------------------------------------------------------------
(* Rendering *)

TaskRefs(recs, cr, pend) ==
    UNION ({Range(recs[d].tasks) : d \in DOMAIN recs}
           \cup {Range(cr.tasks)}
           \cup {Range(pend[i].rec.tasks) : i \in DOMAIN pend})

PrayerRefs(recs, cr, pend) ==
    {recs[d].prayers : d \in DOMAIN recs} \cup {cr.prayers}
    \cup {pend[i].rec.prayers : i \in DOMAIN pend}

\* The render that follows a state change, with its effects:
\*  - the currentRecord memo is recomputed when one of its dependencies
\*    (selectedDate, state.records, state.templates) is a new value;
\*  - the fetchQuote effect runs when selectedDate, profile.name or
\*    currentRecord.customQuote changed, and starts a request, capturing the
\*    selectedDate and currentRecord of this render, when the quote is falsy.
Render(recs, sel, prof, h, ph, recsReplaced, pend) ==
    LET recompute == recsReplaced \/ sel # selectedDate
        m == IF recompute THEN Materialize(sel, recs, h, ph)
             ELSE [rec |-> currentRecord, h |-> h, ph |-> ph]
        effectRuns == \/ sel # selectedDate
                      \/ prof.name # profile.name
                      \/ m.rec.customQuote # currentRecord.customQuote
        fetch == effectRuns /\ Falsy(m.rec.customQuote)
    IN [cr |-> m.rec, h |-> m.h, ph |-> m.ph,
        pend |-> IF fetch THEN Append(pend, [date |-> sel, rec |-> m.rec])
                 ELSE pend]

\* setState followed by the render; objects no longer referenced are dropped
Finish(recs, sel, prof, h, ph, recsReplaced, pend) ==
    LET out == Render(recs, sel, prof, h, ph, recsReplaced, pend)
        h1 == Restrict(out.h, TaskRefs(recs, out.cr, out.pend))
        ph1 == Restrict(out.ph, PrayerRefs(recs, out.cr, out.pend))
        \* a state setter ran: state is a new object and the persistence
        \* effect, which depends on [state], runs after the render
        stateReplaced == recsReplaced \/ prof # profile \/ darkMode' # darkMode
    IN /\ Len(out.pend) <= MaxInflight
       /\ records' = recs
       /\ selectedDate' = sel
       /\ profile' = prof
       /\ currentRecord' = out.cr
       /\ pending' = out.pend
       /\ heap' = h1
       /\ pheap' = ph1
       /\ saved' = IF stateReplaced THEN Stringify(prof, recs, h1, ph1, darkMode')
                   ELSE saved

\* a handler that returns without calling a state setter: nothing re-renders
NoRender ==
    UNCHANGED <<profile, records, darkMode, selectedDate, currentRecord,
                pending, heap, pheap, saved>>

MutationOps ==
    {"toggleTask", "togglePrayer", "editTask", "deleteTask", "addTask", "setQuote"}

CommitOps == {"toggleTask", "togglePrayer", "editTask", "deleteTask", "addTask"}

NavigationOps == {"changeDate", "pickDate"}

\* history of the handlers, for stating properties of single operations
Track(op, d, arg, hit) ==
    /\ steps < MaxSteps
    /\ steps' = steps + 1
    /\ prevOp' = [op |-> lastOp.op, date |-> lastOp.date, arg |-> lastOp.arg,
                  hit |-> lastOp.hit, before |-> lastOp.before]
    /\ seen' = [mutated |-> IF op \in MutationOps THEN seen.mutated \cup {d}
                            ELSE seen.mutated,
                landed |-> IF op = "land" THEN seen.landed \cup {d}
                           ELSE seen.landed,
                reset |-> IF op = "reset" /\ hit THEN "clean"
                          ELSE IF op \in MutationOps /\ seen.reset = "clean"
                               THEN "dirty"
                          ELSE seen.reset]
    /\ lastOp' = [op |-> op, date |-> d, arg |-> arg, hit |-> hit,
                  hadRecord |-> d \in DOMAIN records,
                  before |-> MaterializeView(d),
                  recs |-> RecordsView,
                  prof |-> profile, dark |-> darkMode]

CommitAddsPoints(record, h, ph) ==
    Finish(Put(records, selectedDate, updateRecord(record, h)),
           selectedDate,
           [profile EXCEPT !.totalPoints = @ + Earned(record.tasks, h)],
           h, ph, TRUE, pending)

\* updateRecord: finalize the copy and store it under selectedDate
Commit(record, h, ph) ==
    Finish(Put(records, selectedDate, updateRecord(record, h)),
           selectedDate, profile, h, ph, TRUE, pending)

---------------------------------------------------------------------------
(* Handlers *)

IdInputs ==
    {heap[currentRecord.tasks[i]].id : i \in DOMAIN currentRecord.tasks}
    \cup {AbsentId}

toggleTask(taskId) ==
    LET idx == FindIndex(currentRecord.tasks, heap, taskId)
    IN /\ Track("toggleTask", selectedDate, taskId, idx # 0)
       /\ UNCHANGED darkMode
       /\ IF idx = 0
          THEN NoRender
          ELSE Commit(currentRecord,
                      [heap EXCEPT ![currentRecord.tasks[idx]].completed = ~@],
                      pheap)

togglePrayer(prayer) ==
    LET unset == currentRecord.prayers = 0
        pref == IF unset THEN NextFree(DOMAIN pheap) ELSE currentRecord.prayers
        ph0 == IF unset THEN Extend(pheap, [r \in {pref} |-> {}]) ELSE pheap
        ph1 == [ph0 EXCEPT ![pref] = IF prayer \in @ THEN @ \ {prayer}
                                     ELSE @ \cup {prayer}]
    IN /\ Track("togglePrayer", selectedDate, prayer, TRUE)
       /\ UNCHANGED darkMode
       /\ Commit([currentRecord EXCEPT !.prayers = pref], heap, ph1)

updateTaskInstanceEverywhere(taskId, updates) ==
    /\ Track("editTask", selectedDate, taskId,
             \E i \in DOMAIN currentRecord.tasks :
                 heap[currentRecord.tasks[i]].id = taskId)
    /\ UNCHANGED darkMode
    /\ Commit(currentRecord,
              [r \in DOMAIN heap |->
                  IF heap[r].id = taskId THEN Merge(heap[r], updates) ELSE heap[r]],
              pheap)

updateTaskInstance(taskId, updates) ==
    LET tasks == currentRecord.tasks
        matches == {i \in DOMAIN tasks : heap[tasks[i]].id = taskId}
        fresh == FreshRefs(DOMAIN heap, Cardinality(matches))
        rank(i) == Cardinality({k \in matches : k <= i})
        newTasks == [i \in 1..Len(tasks) |->
                        IF i \in matches THEN fresh[rank(i)] ELSE tasks[i]]
        h1 == Extend(heap, [r \in Range(fresh) |->
                  Merge(heap[tasks[CHOOSE i \in matches : fresh[rank(i)] = r]],
                        updates)])
    IN /\ Track("editTask", selectedDate, taskId, matches # {})
       /\ UNCHANGED darkMode
       /\ Commit([currentRecord EXCEPT !.tasks = newTasks], h1, pheap)

deleteTaskInstance(taskId) ==
    LET tasks == currentRecord.tasks
        keep == {i \in DOMAIN tasks : heap[tasks[i]].id # taskId}
    IN /\ Track("deleteTask", selectedDate, taskId, keep # DOMAIN tasks)
       /\ UNCHANGED darkMode
       /\ Commit([currentRecord EXCEPT !.tasks = FilterIdx(tasks, keep, 1)],
                 heap, pheap)

\* the "Define Goal" button; newId is the value of
\* Math.random().toString(36).substr(2, 9), which nothing keeps from
\* repeating an id already in the record
addTask(newId) ==
    LET ref == NextFree(DOMAIN heap)
        newTask == [id |-> newId, name |-> NewTaskName,
                    points |-> NewTaskPoints, completed |-> FALSE]
    IN /\ Len(currentRecord.tasks) < MaxTasks
       /\ Track("addTask", selectedDate, newId, TRUE)
       /\ UNCHANGED darkMode
       /\ Commit([currentRecord EXCEPT !.tasks = Append(@, ref)],
                 Extend(heap, [r \in {ref} |-> newTask]), pheap)

setQuoteCommits(text) ==
    /\ Track("setQuote", selectedDate, text, TRUE)
    /\ UNCHANGED darkMode
    /\ Commit([currentRecord EXCEPT !.customQuote = text], heap, pheap)

\* onChange of the quote textarea
setQuote(text) ==
    /\ Track("setQuote", selectedDate, text, TRUE)
    /\ UNCHANGED darkMode
    /\ Finish(Put(records, selectedDate,
                  [currentRecord EXCEPT !.customQuote = text]),
              selectedDate, profile, heap, pheap, TRUE, pending)

Without(s, i) == SubSeq(s, 1, i - 1) \o SubSeq(s, i + 1, Len(s))

landInspirationUnderSelected(i, q) ==
    LET cl == pending[i]
    IN /\ Track("land", cl.date, q, TRUE)
       /\ UNCHANGED darkMode
       /\ Finish(Put(records, selectedDate, [cl.rec EXCEPT !.customQuote = q]),
                 selectedDate, profile, heap, pheap, TRUE, Without(pending, i))

landInspirationReplacesAll(i, q) ==
    LET cl == pending[i]
    IN /\ Track("land", cl.date, q, TRUE)
       /\ UNCHANGED darkMode
       /\ Finish(Put(EmptyMap, cl.date, [cl.rec EXCEPT !.customQuote = q]),
                 selectedDate, profile, heap, pheap, TRUE, Without(pending, i))

\* the continuation of fetchQuote after the await: the i-th request in
\* flight is answered with q
landInspiration(i, q) ==
    LET cl == pending[i]
    IN /\ Track("land", cl.date, q, TRUE)
       /\ UNCHANGED darkMode
       /\ Finish(Put(records, cl.date, [cl.rec EXCEPT !.customQuote = q]),
                 selectedDate, profile, heap, pheap, TRUE, Without(pending, i))

\* the awaited call rejects: the continuation never runs
failInspiration(i) ==
    /\ Track("fail", pending[i].date, Undefined, TRUE)
    /\ UNCHANGED darkMode
    /\ Finish(records, selectedDate, profile, heap, pheap, FALSE,
              Without(pending, i))

changeDateStores(offset) ==
    LET d == selectedDate + offset
        m == Materialize(d, records, heap, pheap)
    IN /\ d \in Dates
       /\ Track("changeDate", d, Undefined, TRUE)
       /\ UNCHANGED darkMode
       /\ Finish(Put(records, d, m.rec), d, profile, m.h, m.ph, TRUE, pending)

\* changeDate: the date offset days from selectedDate
changeDate(offset) ==
    /\ selectedDate + offset \in Dates
    /\ Track("changeDate", selectedDate + offset, Undefined, TRUE)
    /\ UNCHANGED darkMode
    /\ Finish(records, selectedDate + offset, profile, heap, pheap, FALSE,
              pending)

pickDateStores(d) ==
    LET m == Materialize(d, records, heap, pheap)
    IN /\ Track("pickDate", d, Undefined, TRUE)
       /\ UNCHANGED darkMode
       /\ Finish(Put(records, d, m.rec), d, profile, m.h, m.ph, TRUE, pending)

\* onChange of the date input, and the click on a card of the archive
pickDate(d) ==
    /\ Track("pickDate", d, Undefined, TRUE)
    /\ UNCHANGED darkMode
    /\ Finish(records, d, profile, heap, pheap, FALSE, pending)

clearAllRecordsKeepsCounters(confirmed) ==
    /\ Track("reset", selectedDate, Undefined, confirmed)
    /\ UNCHANGED darkMode
    /\ IF confirmed
       THEN Finish(EmptyMap, selectedDate, profile, heap, pheap, TRUE, pending)
       ELSE NoRender

clearAllRecordsUnasked(confirmed) ==
    /\ Track("reset", selectedDate, Undefined, confirmed)
    /\ UNCHANGED darkMode
    /\ Finish(EmptyMap, selectedDate,
              [profile EXCEPT !.totalPoints = 0, !.streak = 0],
              heap, pheap, TRUE, pending)

\* clearAllRecords; confirmed is the answer of window.confirm
clearAllRecords(confirmed) ==
    /\ Track("reset", selectedDate, Undefined, confirmed)
    /\ UNCHANGED darkMode
    /\ IF confirmed
       THEN Finish(EmptyMap, selectedDate,
                   [profile EXCEPT !.totalPoints = 0, !.streak = 0],
                   heap, pheap, TRUE, pending)
       ELSE NoRender

\* onChange of the profile name input
setName(name) ==
    /\ name # profile.name
    /\ Track("setName", selectedDate, name, TRUE)
    /\ UNCHANGED darkMode
    /\ Finish(records, selectedDate, [profile EXCEPT !.name = name],
              heap, pheap, FALSE, pending)

\* reader.onloadend of handleAvatarUpload
setAvatar(avatar) ==
    /\ avatar # profile.avatar
    /\ Track("setAvatar", selectedDate, avatar, TRUE)
    /\ UNCHANGED darkMode
    /\ Finish(records, selectedDate, [profile EXCEPT !.avatar = avatar],
              heap, pheap, FALSE, pending)

\* the page is loaded again: useState starts from the saved item, the
\* selected date is today, and the first render runs its effects; requests
\* of the page before are gone with it
reload ==
    LET st == Parse(saved)
        m == Materialize(Today, st.recs, st.h, st.ph)
        pend == IF Falsy(m.rec.customQuote)
                THEN << [date |-> Today, rec |-> m.rec] >> ELSE << >>
        h1 == Restrict(m.h, TaskRefs(st.recs, m.rec, pend))
        ph1 == Restrict(m.ph, PrayerRefs(st.recs, m.rec, pend))
    IN /\ Track("reload", Today, Undefined, TRUE)
       /\ profile' = st.profile
       /\ records' = st.recs
       /\ darkMode' = st.darkMode
       /\ selectedDate' = Today
       /\ currentRecord' = m.rec
       /\ pending' = pend
       /\ heap' = h1
       /\ pheap' = ph1
       /\ saved' = Stringify(st.profile, st.recs, h1, ph1, st.darkMode)

toggleDarkMode ==
    /\ Track("toggleDarkMode", selectedDate, Undefined, TRUE)
    /\ darkMode' = ~darkMode
    /\ Finish(records, selectedDate, profile, heap, pheap, FALSE, pending)

---------------------------------------------------------------------------
(* Statistics, computed by each render from state.records *)

\* Object.values(state.records).sort((a, b) => a.date.localeCompare(b.date)):
\* the records of the date keys ds in ascending order of date (the sums
\* that the code takes over the unsorted values do not depend on the order)
RECURSIVE SortedValues(_, _)
SortedValues(recs, ds) ==
    IF ds = {} THEN << >>
    ELSE LET d == CHOOSE x \in ds : \A y \in ds : x <= y
         IN << recs[d] >> \o SortedValues(recs, ds \ {d})

allRecords == SortedValues(records, DOMAIN records)

\* r.date.split('-').slice(1).join('/'): the month and day of the key,
\* without its year (dates a year apart get the same label)
MonthDay(d) == d % 365

chartDataFirst(all) ==
    [i \in 1..Min(Len(all), ChartWindow) |->
        [date |-> MonthDay(all[i].date), points |-> all[i].totalPointsEarned]]

\* stats.chartData: allRecords.slice(-14).map(...)
chartData(all) ==
    LET from == IF Len(all) > ChartWindow THEN Len(all) - ChartWindow ELSE 0
    IN [i \in 1..(Len(all) - from) |->
           [date |-> MonthDay(all[from + i].date),
            points |-> all[from + i].totalPointsEarned]]

\* Math.round(n / d) for n >= 0 and d > 0: the nearest integer, halves up
Round(n, d) == (2 * n + d) \div (2 * d)

avgScoreFloor(all) ==
    IF Len(all) # 0
    THEN SumSeq([i \in 1..Len(all) |-> all[i].totalPointsEarned]) \div Len(all)
    ELSE 0

\* stats.avgScore
avgScore(all) ==
    IF Len(all) # 0
    THEN Round(SumSeq([i \in 1..Len(all) |-> all[i].totalPointsEarned]), Len(all))
    ELSE 0

\* reduce((acc, r) => acc + r.totalPointsEarned / (r.maxPointsPossible || 1), 0)
\* as the exact fraction n/d
RECURSIVE SumRatios(_)
SumRatios(all) ==
    IF all = << >> THEN [n |-> 0, d |-> 1]
    ELSE LET s == SumRatios(Tail(all))
             m == OrOne(Head(all).maxPointsPossible)
         IN [n |-> s.n * m + Head(all).totalPointsEarned * s.d, d |-> s.d * m]

efficiencyOfTotals(all) ==
    Round(100 * SumSeq([i \in 1..Len(all) |-> all[i].totalPointsEarned]),
          OrOne(SumSeq([i \in 1..Len(all) |-> all[i].maxPointsPossible])))

\* the "Efficiency Quotient" card
efficiencyQuotient(all) ==
    LET s == SumRatios(all)
    IN Round(100 * s.n, s.d * OrOne(Len(all)))

milestoneDaysNoMaxGuard(all) ==
    Len(FilterIdx(all, {i \in DOMAIN all :
            all[i].totalPointsEarned >= all[i].maxPointsPossible}, 1))

\* the "Zenith Milestone Days" card
milestoneDays(all) ==
    Len(FilterIdx(all, {i \in DOMAIN all :
            /\ all[i].totalPointsEarned >= all[i].maxPointsPossible
            /\ all[i].maxPointsPossible > 0}, 1))

\* the trophy of a card of the archive
trophy(r) == r.totalPointsEarned >= r.maxPointsPossible

\* progress of the current record, as the exact fraction n/d
progress == Progress(currentRecord.totalPointsEarned,
                     currentRecord.maxPointsPossible)

isCompletedFromTotals ==
    currentRecord.totalPointsEarned >= currentRecord.maxPointsPossible

\* progress === 100 && currentRecord.tasks.length > 0
isCompleted == progress.n = 100 * progress.d /\ Len(currentRecord.tasks) > 0

---------------------------------------------------------------------------
(* The component *)

\* Mount with nothing in localStorage: the initial state, the first render
\* and its effects (the first inspiration request, for today)
Init ==
    LET m == Materialize(Today, EmptyMap, EmptyMap, EmptyMap)
    IN /\ profile = INITIAL_PROFILE
       /\ records = EmptyMap
       /\ darkMode = FALSE
       /\ seen = [mutated |-> {}, landed |-> {}, reset |-> "never"]
       /\ selectedDate = Today
       /\ currentRecord = m.rec
       /\ heap = m.h
       /\ pheap = m.ph
       /\ saved = Stringify(INITIAL_PROFILE, EmptyMap, m.h, m.ph, FALSE)
       /\ pending = IF Falsy(m.rec.customQuote)
                    THEN << [date |-> Today, rec |-> m.rec] >> ELSE << >>
       /\ steps = 0
       /\ lastOp = [op |-> "mount", date |-> Today, arg |-> Undefined,
                    hit |-> TRUE, hadRecord |-> FALSE,
                    before |-> ViewRec(m.rec, m.h, m.ph), recs |-> EmptyMap,
                    prof |-> INITIAL_PROFILE, dark |-> FALSE]
       /\ prevOp = [op |-> "none", date |-> Today, arg |-> Undefined,
                    hit |-> TRUE, before |-> ViewRec(m.rec, m.h, m.ph)]

Next ==
    \/ \E id \in IdInputs : toggleTask(id)
    \/ \E p \in PrayerInputs : togglePrayer(p)
    \/ \E id \in IdInputs, u \in Updates : updateTaskInstance(id, u)
    \/ \E id \in IdInputs : deleteTaskInstance(id)
    \/ \E id \in RandomIds : addTask(id)
    \/ \E text \in UserQuotes : setQuote(text)
    \/ \E i \in DOMAIN pending, q \in ProviderQuotes : landInspiration(i, q)
    \/ \E i \in DOMAIN pending : failInspiration(i)
    \/ \E offset \in {-1, 1} : changeDate(offset)
    \/ \E d \in Dates : pickDate(d)
    \/ \E confirmed \in BOOLEAN : clearAllRecords(confirmed)
    \/ \E name \in ProfileNames : setName(name)
    \/ \E avatar \in Avatars : setAvatar(avatar)
    \/ toggleDarkMode
    \/ reload

Spec == Init /\ [][Next]_vars

---------------------------------------------------------------------------
(* The component started from a saved history *)

\* the record an earlier session left for the day `age` days before today:
\* the template tasks, the first age % 4 of them completed, committed
HistoryRecord(age) ==
    LET ts == [i \in 1..Len(templates) |->
                  [id |-> templates[i].id, name |-> templates[i].name,
                   points |-> templates[i].points,
                   completed |-> i <= age % 4]]
        e == SumSeq([i \in 1..Len(ts) |-> IF ts[i].completed THEN ts[i].points ELSE 0])
        m == SumSeq([i \in 1..Len(ts) |-> ts[i].points])
    IN [date |-> Today - age, tasks |-> ts,
        totalPointsEarned |-> e, maxPointsPossible |-> m,
        customQuote |-> "provider quote",
        reportComment |-> getReportComment(Progress(e, m)),
        prayers |-> {}]

\* items that localStorage can hold when the page is loaded: the last k days
\* before today have a record each
SavedItems ==
    {[profile |-> INITIAL_PROFILE,
      templates |-> templates,
      records |-> [d \in {Today - age : age \in 1..k} |-> HistoryRecord(Today - d)],
      darkMode |-> FALSE] : k \in 0..MaxHistory}

\* Mount with an item in localStorage (lines 38-40), the first render and its
\* effects; one handler runs in the session
InitLoaded ==
    \E json \in SavedItems :
        LET st == Parse(json)
            m == Materialize(Today, st.recs, st.h, st.ph)
        IN /\ profile = st.profile
           /\ records = st.recs
           /\ darkMode = st.darkMode
           /\ seen = [mutated |-> DOMAIN st.recs, landed |-> {}, reset |-> "never"]
           /\ selectedDate = Today
           /\ currentRecord = m.rec
           /\ heap = m.h
           /\ pheap = m.ph
           /\ saved = Stringify(st.profile, st.recs, m.h, m.ph, st.darkMode)
           /\ pending = IF Falsy(m.rec.customQuote)
                        THEN << [date |-> Today, rec |-> m.rec] >> ELSE << >>
           /\ steps = MaxSteps - 1
           /\ lastOp = [op |-> "mount", date |-> Today, arg |-> Undefined,
                        hit |-> TRUE, hadRecord |-> FALSE,
                        before |-> ViewRec(m.rec, m.h, m.ph),
                        recs |-> [d \in DOMAIN st.recs |->
                                    ViewRec(st.recs[d], m.h, m.ph)],
                        prof |-> st.profile, dark |-> st.darkMode]
           /\ prevOp = [op |-> "none", date |-> Today, arg |-> Undefined,
                        hit |-> TRUE, before |-> ViewRec(m.rec, m.h, m.ph)]

SpecLoaded == InitLoaded /\ [][Next]_vars

---------------------------------------------------------------------------
(* Vocabulary of the properties *)

\* the stored record of the selected date, as the user sees it
Stored == View(records[selectedDate])

RECURSIVE SumCompleted(_)
SumCompleted(ts) ==
    IF ts = << >> THEN 0
    ELSE (IF Head(ts).completed THEN Head(ts).points ELSE 0) + SumCompleted(Tail(ts))

RECURSIVE SumAll(_)
SumAll(ts) == IF ts = << >> THEN 0 ELSE Head(ts).points + SumAll(Tail(ts))

Committed == lastOp.op \in CommitOps /\ (lastOp.op = "toggleTask" => lastOp.hit)

\* the tier table of the report comment, on progressPercent = 100 * e / max(m, 1)
TierOf(e, m) ==
    LET d == IF m > 1 THEN m ELSE 1
    IN IF 100 * e = 0 THEN "empty canvas"
       ELSE IF 100 * e < 30 * d THEN "seed sower"
       ELSE IF 100 * e >= 30 * d /\ 100 * e < 60 * d THEN "momentum builder"
       ELSE IF 100 * e >= 60 * d /\ 100 * e < 100 * d THEN "peak performer"
       ELSE "zenith master"

\* position of the first task with the given id in a sequence of tasks (0: none)
FirstWithId(ts, id) ==
    LET hits == {i \in DOMAIN ts : ts[i].id = id}
    IN IF hits = {} THEN 0 ELSE CHOOSE i \in hits : \A j \in hits : i <= j

---------------------------------------------------------------------------
(* C1 *)

\* C1: immediately after a committing operation on the selected date (toggle
\* of a present id, edit, add, delete, prayer toggle) the record stored at
\* that date has totalPointsEarned = sum of the points of its completed
\* tasks and maxPointsPossible = sum of the points of all its tasks.
C1_TotalsAfterCommit ==
    Committed =>
        /\ selectedDate \in DOMAIN records
        /\ Stored.totalPointsEarned = SumCompleted(Stored.tasks)
        /\ Stored.maxPointsPossible = SumAll(Stored.tasks)

\* a commit on a record whose totals were stale before it: a task was
\* completed, a response overwrote the totals, and a delete recomputed them
C1_Witness ==
    /\ lastOp.op = "deleteTask" /\ lastOp.hit
    /\ lastOp.before.totalPointsEarned # SumCompleted(lastOp.before.tasks)
    /\ Stored.totalPointsEarned > 0

---------------------------------------------------------------------------
(* C2 *)

\* C2: when an inspiration response lands on a date whose record already
\* holds a quote, the response is discarded: the record's customQuote after
\* the response is its customQuote before it.
C2_LateResponseDiscarded ==
    (lastOp.op = "land" /\ lastOp.hadRecord /\ ~Falsy(lastOp.before.customQuote))
        => View(records[lastOp.date]).customQuote = lastOp.before.customQuote

---------------------------------------------------------------------------
(* C3 *)

\* C3: a landing inspiration response is merged into the record that is
\* current for its date at landing time: the tasks, completion flags,
\* prayers and derived totals of the stored record are those of the latest
\* commit, so the landing changes none of them.
C3_MergedIntoCurrentRecord ==
    (lastOp.op = "land" /\ lastOp.hadRecord)
        => LET v == View(records[lastOp.date])
           IN /\ v.tasks = lastOp.before.tasks
              /\ v.prayers = lastOp.before.prayers
              /\ v.totalPointsEarned = lastOp.before.totalPointsEarned
              /\ v.maxPointsPossible = lastOp.before.maxPointsPossible

---------------------------------------------------------------------------
(* C4 *)

\* C4 (as claimed): a date that was only viewed, with no toggle, edit, add,
\* delete, prayer or quote operation ever applied to it, never has an entry
\* in the records mapping.
C4_ViewedOnlyNeverStored == DOMAIN records \subseteq seen.mutated

\* C4 (amended): a date has an entry in the records mapping only if a
\* mutation was applied to it or an inspiration response requested for it
\* has landed; viewing a date never stores a record by itself.
C4_StoredOnlyByMutationOrResponse ==
    DOMAIN records \subseteq (seen.mutated \cup seen.landed)

\* a date that was only viewed is stored, after the response for it landed
C4_Witness ==
    /\ lastOp.op = "land"
    /\ lastOp.date \notin seen.mutated
    /\ lastOp.date \in DOMAIN records
    /\ lastOp.date # selectedDate

---------------------------------------------------------------------------
(* C5 *)

\* the record the specification describes for a date without a stored record
TemplateRecord(date) ==
    [date |-> date,
     tasks |-> [i \in 1..Len(templates) |->
                  [id |-> templates[i].id, name |-> templates[i].name,
                   points |-> templates[i].points, completed |-> FALSE]],
     totalPointsEarned |-> 0,
     maxPointsPossible |-> SumAll(templates),
     customQuote |-> Undefined,
     reportComment |-> Undefined,
     prayers |-> {}]

\* C5: materialize(date) is exactly the stored record when records[date]
\* exists; otherwise it has the given date, one uncompleted task per template
\* in catalog order, totalPointsEarned = 0, maxPointsPossible = sum of the
\* template points, all five prayers false, no customQuote, no reportComment.
C5_Materialize ==
    /\ IF selectedDate \in DOMAIN records
       THEN currentRecord = records[selectedDate]
       ELSE View(currentRecord) = TemplateRecord(selectedDate)
    /\ \A d \in Dates :
          MaterializeView(d) =
              IF d \in DOMAIN records THEN View(records[d]) ELSE TemplateRecord(d)

\* an unstored date is shown while another date has a stored record with a
\* completed task
C5_Witness ==
    /\ lastOp.op \in NavigationOps
    /\ selectedDate \notin DOMAIN records
    /\ \E d \in DOMAIN records : View(records[d]).totalPointsEarned > 0

---------------------------------------------------------------------------
(* C6 *)

\* C6: materialize is a pure, idempotent read: computing the current record
\* for a date (which is all that navigation does) leaves the records mapping
\* unchanged, and the record computed by the render equals the record
\* computed for that date before, with no mutation in between.
C6_MaterializePure ==
    lastOp.op \in NavigationOps =>
        /\ RecordsView = lastOp.recs
        /\ View(currentRecord) = lastOp.before
        /\ \A d \in DOMAIN records : MaterializeView(d) = lastOp.recs[d]

\* the user went to another date and came back to an unstored date
C6_Witness ==
    /\ lastOp.op \in NavigationOps /\ prevOp.op \in NavigationOps
    /\ lastOp.date # prevOp.date
    /\ selectedDate \notin DOMAIN records
    /\ records # EmptyMap

---------------------------------------------------------------------------
(* C7 *)

\* C7: the report comment is the tier of progressPercent =
\* 100 * totalPointsEarned / max(maxPointsPossible, 1): 0 empty canvas, (0,30)
\* seed sower, [30,60) momentum builder, [60,100) peak performer, 100 zenith
\* master; after every commit the stored reportComment is the tier of the
\* recomputed totals, and zenith master needs maxPointsPossible > 0 (a record
\* without tasks gets empty canvas).
C7_ReportCommentTier ==
    /\ Committed =>
          /\ Stored.reportComment =
                 TierOf(SumCompleted(Stored.tasks), SumAll(Stored.tasks))
          /\ Stored.reportComment = "zenith master" => Stored.maxPointsPossible > 0
          /\ Stored.tasks = << >> => Stored.reportComment = "empty canvas"
    /\ getReportComment(Progress(0, 50)) = "empty canvas"
    /\ getReportComment(Progress(15, 50)) = "momentum builder"
    /\ getReportComment(Progress(50, 50)) = "zenith master"
    /\ getReportComment(Progress(0, 0)) = "empty canvas"

\* a commit that lands exactly on the 30% boundary
C7_Witness ==
    /\ Committed
    /\ Stored.maxPointsPossible > 0
    /\ 100 * Stored.totalPointsEarned = 30 * Stored.maxPointsPossible
    /\ Stored.reportComment = "momentum builder"

---------------------------------------------------------------------------
(* C8 *)

\* C8: toggling the same present task twice in a row on the same date
\* returns totalPointsEarned, maxPointsPossible, reportComment and the
\* task's completed flag to their values before the first toggle.
C8_ToggleTwiceRestores ==
    (/\ lastOp.op = "toggleTask" /\ lastOp.hit
     /\ prevOp.op = "toggleTask" /\ prevOp.hit
     /\ lastOp.arg = prevOp.arg /\ lastOp.date = prevOp.date)
        => LET b == prevOp.before
               i == FirstWithId(b.tasks, lastOp.arg)
           IN /\ Stored.totalPointsEarned = b.totalPointsEarned
              /\ Stored.maxPointsPossible = b.maxPointsPossible
              /\ Stored.reportComment = b.reportComment
              /\ Stored.tasks[i].completed = b.tasks[i].completed

---------------------------------------------------------------------------
(* C9 *)

\* C9: deleteTask with an id present in the record removes that task,
\* reduces maxPointsPossible by exactly that task's points, reduces
\* totalPointsEarned by that task's points if it was completed and leaves it
\* unchanged otherwise, and keeps every other task, in the same order.
C9_DeleteRemovesOneTask ==
    (lastOp.op = "deleteTask" /\ lastOp.hit)
        => LET b == lastOp.before
               i == FirstWithId(b.tasks, lastOp.arg)
               t == b.tasks[i]
           IN /\ Stored.tasks = Without(b.tasks, i)
              /\ Stored.maxPointsPossible = b.maxPointsPossible - t.points
              /\ Stored.totalPointsEarned =
                     b.totalPointsEarned - (IF t.completed THEN t.points ELSE 0)

---------------------------------------------------------------------------
(* C10 *)

\* C10: toggleTask, editTask and deleteTask with a task id absent from the
\* current record leave the record's tasks, totalPointsEarned and
\* maxPointsPossible unchanged.
C10_BenignMiss ==
    (lastOp.op \in {"toggleTask", "editTask", "deleteTask"} /\ ~lastOp.hit)
        => /\ View(currentRecord).tasks = lastOp.before.tasks
           /\ View(currentRecord).totalPointsEarned = lastOp.before.totalPointsEarned
           /\ View(currentRecord).maxPointsPossible = lastOp.before.maxPointsPossible

---------------------------------------------------------------------------
(* C11 *)

DistinctIds(ts) == \A i, j \in DOMAIN ts : i # j => ts[i].id # ts[j].id

\* C11: addTask appends one task at the end of the record's task sequence,
\* with completed = false and an id different from every id already in the
\* record; hence the task ids within each stored record are pairwise
\* distinct.
C11_AddedIdIsFresh ==
    /\ lastOp.op = "addTask" =>
          LET b == lastOp.before
          IN /\ Len(Stored.tasks) = Len(b.tasks) + 1
             /\ SubSeq(Stored.tasks, 1, Len(b.tasks)) = b.tasks
             /\ Stored.tasks[Len(Stored.tasks)].completed = FALSE
             /\ \A i \in DOMAIN b.tasks :
                   b.tasks[i].id # Stored.tasks[Len(Stored.tasks)].id
    /\ \A d \in DOMAIN records : DistinctIds(View(records[d]).tasks)

---------------------------------------------------------------------------
(* C12 *)

\* C12: a confirmed reset leaves, in one step, the records mapping empty and
\* profile.totalPoints = 0 and profile.streak = 0, leaves templates, profile
\* name, avatar and darkMode unchanged, and afterwards the record
\* materialized for any date is the template-derived record with all tasks
\* uncompleted, as after initialization.
C12_ConfirmedReset ==
    (lastOp.op = "reset" /\ lastOp.hit) =>
        /\ records = EmptyMap
        /\ profile.totalPoints = 0
        /\ profile.streak = 0
        /\ profile.name = lastOp.prof.name
        /\ profile.avatar = lastOp.prof.avatar
        /\ darkMode = lastOp.dark
        /\ templates = DEFAULT_TEMPLATES
        /\ \A d \in Dates : MaterializeView(d) = TemplateRecord(d)

\* the history that was erased held a completed task of the selected date,
\* and the streak was not zero
C12_Witness ==
    /\ lastOp.op = "reset" /\ lastOp.hit
    /\ selectedDate \in DOMAIN lastOp.recs
    /\ lastOp.before.totalPointsEarned > 0
    /\ lastOp.prof.streak > 0

---------------------------------------------------------------------------
(* C13 *)

\* C13: a reset whose confirmation is declined changes nothing: records,
\* profile (totalPoints, streak, name, avatar), templates and darkMode are
\* equal to their values before the call.
C13_DeclinedReset ==
    (lastOp.op = "reset" /\ ~lastOp.hit) =>
        /\ RecordsView = lastOp.recs
        /\ profile = lastOp.prof
        /\ darkMode = lastOp.dark
        /\ templates = DEFAULT_TEMPLATES
        /\ View(currentRecord) = lastOp.before

\* a declined reset of a history with a stored record and a nonzero streak
C13_Witness ==
    /\ lastOp.op = "reset" /\ ~lastOp.hit
    /\ records # EmptyMap
    /\ profile.streak > 0
    /\ \E d \in DOMAIN records : View(records[d]).totalPointsEarned > 0

---------------------------------------------------------------------------
(* C14 *)

\* the flags of a prayers field that are true; an unset field has none
TrueFlags(prayers) == prayers \ {Undefined}

\* C14: togglePrayer changes exactly one of the five prayer flags of the
\* selected date's record (an unset prayers field counting as all false) and
\* leaves the record's tasks, totalPointsEarned, maxPointsPossible,
\* customQuote and the other four flags unchanged.
C14_TogglePrayerFrame ==
    lastOp.op = "togglePrayer" =>
        LET b == lastOp.before
        IN /\ selectedDate \in DOMAIN records
           /\ \A p \in Prayers :
                 (p \in TrueFlags(Stored.prayers)) =
                     (IF p = lastOp.arg THEN p \notin TrueFlags(b.prayers)
                      ELSE p \in TrueFlags(b.prayers))
           /\ Stored.tasks = b.tasks
           /\ Stored.totalPointsEarned = b.totalPointsEarned
           /\ Stored.maxPointsPossible = b.maxPointsPossible
           /\ Stored.customQuote = b.customQuote

---------------------------------------------------------------------------
(* C15 *)

\* C15: setQuote(text) stores the record of the selected date with
\* customQuote equal to text verbatim and with tasks, completion flags,
\* prayers, totalPointsEarned and maxPointsPossible unchanged.
C15_SetQuoteFrame ==
    lastOp.op = "setQuote" =>
        LET b == lastOp.before
        IN /\ selectedDate \in DOMAIN records
           /\ Stored.customQuote = lastOp.arg
           /\ Stored.tasks = b.tasks
           /\ Stored.prayers = b.prayers
           /\ Stored.totalPointsEarned = b.totalPointsEarned
           /\ Stored.maxPointsPossible = b.maxPointsPossible

\* a quote typed on a record that has a completed task and a prayer
C15_Witness ==
    /\ lastOp.op = "setQuote"
    /\ lastOp.arg = "my quote"
    /\ Stored.customQuote = "my quote"
    /\ Stored.totalPointsEarned > 0
    /\ Stored.prayers # {}

---------------------------------------------------------------------------
(* C16 *)

\* C16: in every reachable state every entry of the records mapping has a
\* date field equal to the key it is stored under, whether it was written by
\* a commit, by setQuote or by a landing inspiration response, also when the
\* user navigated to another date between request and response.
C16_KeyIsDate == \A d \in DOMAIN records : records[d].date = d

\* a response landed for a date that is no longer the selected one, while
\* the selected date has a stored record of its own
C16_Witness ==
    /\ lastOp.op = "land"
    /\ lastOp.date # selectedDate
    /\ lastOp.date \in DOMAIN records
    /\ selectedDate \in DOMAIN records

---------------------------------------------------------------------------
(* C17 *)

\* C17: in every reachable state every stored record has a reportComment
\* equal to the tier of its own totalPointsEarned / max(maxPointsPossible, 1);
\* no path stores a record whose reportComment is missing or differs from
\* that tier.
C17_StoredCommentIsTier ==
    \A d \in DOMAIN records :
        records[d].reportComment =
            TierOf(records[d].totalPointsEarned, records[d].maxPointsPossible)

---------------------------------------------------------------------------
(* C18 *)

\* sum of totalPointsEarned over the stored records of the dates ds
RECURSIVE TotalEarned(_)
TotalEarned(ds) ==
    IF ds = {} THEN 0
    ELSE LET d == CHOOSE x \in ds : TRUE
         IN records[d].totalPointsEarned + TotalEarned(ds \ {d})

\* C18 (as claimed): averageScore equals the mean of totalPointsEarned over
\* all stored records (the sum divided by the number of records), and is 0
\* when there are no records.
C18_AverageIsMean ==
    avgScore(allRecords) * Cardinality(DOMAIN records) = TotalEarned(DOMAIN records)

\* C18 (amended): averageScore is the mean of totalPointsEarned over all
\* stored records rounded to the nearest integer, a half rounding up, and is
\* 0 when there are no records.
C18_AverageIsRoundedMean ==
    LET n == Cardinality(DOMAIN records)
        sum == TotalEarned(DOMAIN records)
        avg == avgScore(allRecords)
    IN IF n = 0 THEN avg = 0
       ELSE /\ 2 * n * avg - n <= 2 * sum
            /\ 2 * sum < 2 * n * avg + n

\* two stored records whose mean is not an integer
C18_Witness ==
    /\ Cardinality(DOMAIN records) = 2
    /\ TotalEarned(DOMAIN records) % 2 = 1
    /\ 2 * avgScore(allRecords) = TotalEarned(DOMAIN records) + 1

---------------------------------------------------------------------------
(* C19 *)

\* max(m, 1)
AtLeastOne(m) == IF m > 1 THEN m ELSE 1

\* product of max(maxPointsPossible, 1) over the stored records of the dates ds
RECURSIVE DenominatorProduct(_)
DenominatorProduct(ds) ==
    IF ds = {} THEN 1
    ELSE LET d == CHOOSE x \in ds : TRUE
         IN AtLeastOne(records[d].maxPointsPossible) * DenominatorProduct(ds \ {d})

\* p times the sum of totalPointsEarned / max(maxPointsPossible, 1) over the
\* stored records of the dates ds, for p a multiple of every denominator
RECURSIVE RatioSumTimes(_, _)
RatioSumTimes(ds, p) ==
    IF ds = {} THEN 0
    ELSE LET d == CHOOSE x \in ds : TRUE
         IN records[d].totalPointsEarned
                * (p \div AtLeastOne(records[d].maxPointsPossible))
            + RatioSumTimes(ds \ {d}, p)

\* C19: efficiencyQuotient is the mean over all stored records of
\* totalPointsEarned / max(maxPointsPossible, 1), times 100, rounded to the
\* nearest integer (an integer at most one half away from it); it is 0 for
\* an empty history and 80 for a single 40/50 record.
C19_EfficiencyQuotient ==
    LET ds == DOMAIN records
        n == Cardinality(ds)
        p == DenominatorProduct(ds)
        q == efficiencyQuotient(allRecords)
    IN /\ IF n = 0 THEN q = 0
          ELSE /\ 2 * q * p * n - p * n <= 200 * RatioSumTimes(ds, p)
               /\ 200 * RatioSumTimes(ds, p) <= 2 * q * p * n + p * n
       /\ efficiencyQuotient(<< >>) = 0
       /\ efficiencyQuotient(<< [totalPointsEarned |-> 40,
                                 maxPointsPossible |-> 50] >>) = 80

\* two stored records with different maxima, one of them with points earned,
\* so that the mean of the ratios is not the ratio of the sums
C19_Witness ==
    /\ Cardinality(DOMAIN records) = 2
    /\ \E d, e \in DOMAIN records :
          /\ records[d].maxPointsPossible # records[e].maxPointsPossible
          /\ records[d].totalPointsEarned > 0
          /\ records[e].maxPointsPossible > 0
    /\ efficiencyQuotient(allRecords) > 0

---------------------------------------------------------------------------
(* C20 *)

\* C20: milestoneDays is the number of stored records with
\* totalPointsEarned >= maxPointsPossible and maxPointsPossible > 0; a 20/20
\* record is counted and a 0/0 record is not.
C20_MilestoneDays ==
    /\ milestoneDays(allRecords) =
           Cardinality({d \in DOMAIN records :
                           /\ records[d].totalPointsEarned >= records[d].maxPointsPossible
                           /\ records[d].maxPointsPossible > 0})
    /\ milestoneDays(<< [totalPointsEarned |-> 20, maxPointsPossible |-> 20] >>) = 1
    /\ milestoneDays(<< [totalPointsEarned |-> 0, maxPointsPossible |-> 0] >>) = 0

\* a stored record with every task completed is counted
C20_Witness ==
    /\ \E d \in DOMAIN records :
          /\ records[d].totalPointsEarned >= records[d].maxPointsPossible
          /\ records[d].maxPointsPossible > 0
          /\ View(records[d]).tasks # << >>
    /\ milestoneDays(allRecords) = 1

---------------------------------------------------------------------------
(* C22 *)

\* C22: profile.totalPoints and profile.streak are changed by no operation
\* other than a confirmed reset; from the defaults totalPoints is always 0,
\* and streak is 5 until the first confirmed reset and 0 ever after.
C22_CountersOnlyReset ==
    /\ ~(lastOp.op = "reset" /\ lastOp.hit) =>
          /\ profile.totalPoints = lastOp.prof.totalPoints
          /\ profile.streak = lastOp.prof.streak
    /\ profile.totalPoints = 0
    /\ profile.streak = IF seen.reset = "never" THEN 5 ELSE 0

\* a task was completed after a reset: the counters stay at zero
C22_Witness ==
    /\ seen.reset = "dirty"
    /\ lastOp.op = "toggleTask" /\ lastOp.hit
    /\ Stored.totalPointsEarned > 0
    /\ profile.streak = 0

---------------------------------------------------------------------------
(* C24 *)

\* C24: in every reachable state, every record in the records mapping has
\* totalPointsEarned = sum of the points of its completed tasks and
\* maxPointsPossible = sum of the points of all its tasks.
C24_TotalsInvariant ==
    \A d \in DOMAIN records :
        LET v == View(records[d])
        IN /\ v.totalPointsEarned = SumCompleted(v.tasks)
           /\ v.maxPointsPossible = SumAll(v.tasks)

---------------------------------------------------------------------------
(* C25 *)

\* C25: a mutation (toggle, edit, add, delete, prayer, quote) applied while
\* date D is selected changes only the mapping entry for D: every other date
\* key has the same stored record, tasks and maxPointsPossible included,
\* before and after, and no other key appears or disappears.
C25_OnlySelectedDateChanges ==
    lastOp.op \in MutationOps =>
        /\ DOMAIN records \ {lastOp.date} = DOMAIN lastOp.recs \ {lastOp.date}
        /\ \A d \in DOMAIN lastOp.recs \ {lastOp.date} :
              View(records[d]) = lastOp.recs[d]

\* the points of a task were edited while another date holds a stored record
\* with a task of the same id
C25_Witness ==
    /\ lastOp.op = "editTask" /\ lastOp.hit
    /\ \E d \in DOMAIN records \ {selectedDate} :
          \E i \in DOMAIN View(records[d]).tasks :
              View(records[d]).tasks[i].id = lastOp.arg
    /\ Stored.maxPointsPossible # lastOp.before.maxPointsPossible

---------------------------------------------------------------------------
(* C26 *)

\* C26: reset is irreversible: after a confirmed reset the records mapping
\* stays empty until the next user mutation; an inspiration response
\* requested before the reset and landing after it puts no record back.
C26_ResetIrreversible == seen.reset = "clean" => records = EmptyMap

---------------------------------------------------------------------------
(* C27 *)

\* C27: the current record is fully completed exactly when its progress
\* 100 * totalPointsEarned / max(maxPointsPossible, 1) is 100 and it has at
\* least one task; a record with zero tasks has progress 0 and is never
\* fully completed.
C27_FullyCompleted ==
    LET e == currentRecord.totalPointsEarned
        m == currentRecord.maxPointsPossible
        n == Len(currentRecord.tasks)
    IN /\ isCompleted <=> (e = (IF m > 1 THEN m ELSE 1) /\ n >= 1)
       /\ n = 0 => (e = 0 /\ progress.n = 0 /\ ~isCompleted)

\* the last open task of the current record was completed
C27_Witness ==
    /\ lastOp.op = "toggleTask" /\ lastOp.hit
    /\ isCompleted
    /\ \A i \in DOMAIN currentRecord.tasks : heap[currentRecord.tasks[i]].completed

---------------------------------------------------------------------------
(* C28 *)

\* C28: an inspiration response is written under the key of the date it was
\* requested for, never under the date selected when it lands: the landing
\* changes only the entry of the requested date, which gets the quote, and
\* leaves every other entry, the selected date's included, unchanged.
C28_WrittenUnderRequestedDate ==
    lastOp.op = "land" =>
        /\ DOMAIN records = DOMAIN lastOp.recs \cup {lastOp.date}
        /\ records[lastOp.date].customQuote = lastOp.arg
        /\ \A d \in DOMAIN lastOp.recs \ {lastOp.date} :
              View(records[d]) = lastOp.recs[d]

\* the user went to another date and completed a task there while the
\* request was in flight
C28_Witness ==
    /\ lastOp.op = "land"
    /\ lastOp.date # selectedDate
    /\ prevOp.op = "toggleTask" /\ prevOp.hit /\ prevOp.date = selectedDate
    /\ selectedDate \in DOMAIN records
    /\ Stored.totalPointsEarned > 0

---------------------------------------------------------------------------
(* C29 *)

\* C29: the archive marks a stored record with the trophy exactly when the
\* record is counted by milestoneDays, so the number of records with a
\* trophy equals milestoneDays, also for records with maxPointsPossible = 0.
C29_TrophyIsMilestone ==
    /\ \A d \in DOMAIN records :
          trophy(records[d]) <=> milestoneDays(<< records[d] >>) = 1
    /\ Cardinality({d \in DOMAIN records : trophy(records[d])})
           = milestoneDays(allRecords)

---------------------------------------------------------------------------
(* C23 *)

\* C23: after every state change has been processed the persisted snapshot
\* equals the in-memory AppState, and a restart that loads the snapshot
\* starts from an AppState equal to the one saved; with no snapshot the
\* start state has the default profile, the default templates and an empty
\* records mapping.
C23_PersistenceRoundTrip ==
    /\ saved = Stringify(profile, records, heap, pheap, darkMode)
    /\ lastOp.op = "reload" =>
          /\ RecordsView = lastOp.recs
          /\ profile = lastOp.prof
          /\ darkMode = lastOp.dark
          /\ saved.templates = templates
    /\ lastOp.op = "mount" =>
          /\ profile = INITIAL_PROFILE
          /\ templates = DEFAULT_TEMPLATES
          /\ records = EmptyMap

\* a restart from a snapshot that holds a record with a completed task and
\* an empty quote, typed just before
C23_Witness ==
    /\ lastOp.op = "reload"
    /\ prevOp.op = "setQuote"
    /\ \E d \in DOMAIN records :
          /\ View(records[d]).totalPointsEarned > 0
          /\ View(records[d]).customQuote = ""

---------------------------------------------------------------------------
(* C21 *)

\* the date keys that are among the n greatest of the set ds
Greatest(ds, n) == {d \in ds : Cardinality({x \in ds : x > d}) < n}

\* the i-th key of the set ds in ascending order
KeyAt(ds, i) == CHOOSE d \in ds : Cardinality({x \in ds : x < d}) = i - 1

\* C21: the trend series (n = 14) is the sequence of the min(14, number of
\* records) stored records with the greatest date keys, in strictly
\* ascending date order, each carrying that record's totalPointsEarned.
C21_TrendSeries ==
    LET top == Greatest(DOMAIN records, 14)
        series == chartData(allRecords)
    IN /\ Len(series) = Min(14, Cardinality(DOMAIN records))
       /\ Len(series) = Cardinality(top)
       /\ \A i \in DOMAIN series :
             /\ series[i].points = records[KeyAt(top, i)].totalPointsEarned
             /\ series[i].date = MonthDay(KeyAt(top, i))

\* more than 14 records are stored, and today's was just committed with
\* points
C21_Witness ==
    /\ Cardinality(DOMAIN records) > 14
    /\ lastOp.op = "toggleTask" /\ lastOp.hit
    /\ selectedDate \in DOMAIN records
    /\ Stored.totalPointsEarned > 0
    /\ Len(chartData(allRecords)) = 14

====
